---- MODULE Spec2Model ----
(***************************************************************************)
(* Verification model of next-meeting (Go).                                *)
(*                                                                         *)
(* Part 1: the status reducer calendar.GetMeetingStatus                    *)
(* (src/calendar/calendar.go:99-122).  Instants are integers; a            *)
(* *MeetingInfo is an address into `heap` (0 is the nil pointer); the      *)
(* []*MeetingInfo argument is a slice header (nil or not) with a sequence  *)
(* of such pointers.  Only the Start and End fields of MeetingInfo are     *)
(* read by the reducer, so a heap object carries these two fields.         *)
(***************************************************************************)
EXTENDS Integers, Sequences, FiniteSets

VARIABLES
    heap,      \* the MeetingInfo objects allocated by the producer, by address
    events,    \* the events argument: [isNil, elems], elems a sequence of pointers
    now,       \* the instant read by time.Now() at calendar.go:100
    pc,        \* "ready" before the call, "done" after it
    ret        \* what the call produced: the *MeetingStatus or a panic

\* Part 2: the response filter calendar.FilterAccepted
VARIABLES
    fHeap,     \* the MeetingInfo objects of the filter's input, by address
    fIn,       \* the input slice: [isNil, elems]
    fOut,      \* the returned slice: [isNil, elems], or NoSlice before the call
    fpc        \* "ready" before the call, "done" after it

\* Part 3: the snapshot cache (package cache)
VARIABLES
    file,        \* content of the cache file at cache.GetPath()
    clock,       \* the wall clock, in units of ten minutes
    lastOp,      \* the last cache operation: its arguments, the file before it, its result
    lastWrite,   \* the last successful Write not followed by another Write or a Clear
    clearsInRow  \* successful Clears since the last Write attempt (counted up to 2)

\* Part 4: one invocation of the program (main.go:185-310)
VARIABLES
    mpc,         \* where main is: "start", "read", "fetch", "status", "exited"
    mEvents,     \* main's local variable events
    trace,       \* the cache and network calls made so far, in order
    mOut,        \* how the invocation ended: exit code, message, printed status
    mLog         \* what the environment answered: file at start, read result, fetch and write results

\* Part 5: overlapping invocations on the cache file
VARIABLES
    disk,        \* the cache file as bytes: [exists, bytes]
    rpc,         \* per invocation: "start", "fetch", "open", "write", "done"
    rEv,         \* per invocation: the events it passes to cache.Write
    rRead,       \* per invocation: what its cache.Read returned
    written,     \* the payloads passed to cache.Write so far
    lastDone     \* the payload of the Write that returned last

\* Part 6: the notification dedup store (package notify)
VARIABLES
    nStore,      \* the notify directory: [exists, recs], recs maps a file name to its ModTime
    nClock,      \* the wall clock, in units of 24 hours
    nLast,       \* the last call on the store: its arguments and its result
    nOcc,        \* the meeting occurrences marked right after ShouldNotify returned them
    nOccTwice    \* an occurrence of nOcc was returned and marked once more

\* Part 7: successive invocations of the program
VARIABLES
    prevWrite    \* the last earlier invocation that fetched and cached, with no clear or write since

\* Part 8: the OAuth login wait (calendar.getTokenFromWeb)
VARIABLES
    lpc,         \* getTokenFromWeb: "wait" (the select), "shutdown", "exchange", "returned"
    lOut,        \* which case of the select fired and what was returned
    codeChan,    \* the buffered channel codeChan (capacity 1)
    errChan,     \* the buffered channel errChan (capacity 1)
    hpc,         \* per callback request: "none", "send", "done"
    hCode,       \* per callback request: whether its query carries a code
    srv,         \* the server goroutine: "listening", "failed", "sent", "closed"
    ctxDone      \* whether ctx has been cancelled

statusVars == <<heap, events, now, pc, ret>>

notifyVars == <<nStore, nClock, nLast, nOcc, nOccTwice>>

runsVars == <<prevWrite>>

loginVars == <<lpc, lOut, codeChan, errChan, hpc, hCode, srv, ctxDone>>

raceVars == <<disk, rpc, rEv, rRead, written, lastDone>>

mainVars == <<mpc, mEvents, trace, mOut, mLog>>

cacheVars == <<file, clock, lastOp, lastWrite, clearsInRow>>

filterVars == <<fHeap, fIn, fOut, fpc>>

vars == <<statusVars, filterVars, cacheVars, mainVars, raceVars, notifyVars, runsVars, loginVars>>

\* the variables of a part that a specification does not exercise stay at rest
StatusOff ==
    /\ heap = <<>>
    /\ events = [isNil |-> TRUE, elems |-> <<>>]
    /\ now = 0
    /\ pc = "off"
    /\ ret = [outcome |-> "none", allocated |-> FALSE, CurrentMeeting |-> 0, NextMeeting |-> 0]

FilterOff ==
    /\ fHeap = <<>>
    /\ fIn = [isNil |-> TRUE, elems |-> <<>>]
    /\ fOut = [isNil |-> TRUE, elems |-> <<>>, returned |-> FALSE]
    /\ fpc = "off"

\* the file and the clock are shared by parts 3 and 4
CacheLogOff ==
    /\ lastOp = [op |-> "off"]
    /\ lastWrite = [valid |-> FALSE]
    /\ clearsInRow = 0

CacheOff ==
    /\ file = [kind |-> "missing"]
    /\ clock = 0
    /\ CacheLogOff

RaceOff ==
    /\ disk = [exists |-> FALSE, bytes |-> <<>>]
    /\ rpc = <<>>
    /\ rEv = <<>>
    /\ rRead = <<>>
    /\ written = {}
    /\ lastDone = [valid |-> FALSE]

NotifyOff ==
    /\ nStore = [exists |-> FALSE, recs |-> [k \in {} |-> 0]]
    /\ nClock = 0
    /\ nLast = [op |-> "off"]
    /\ nOcc = {}
    /\ nOccTwice = FALSE

RunsOff == prevWrite = [valid |-> FALSE]

LoginOff ==
    /\ lpc = "off"
    /\ lOut = [case |-> "none"]
    /\ codeChan = <<>>
    /\ errChan = <<>>
    /\ hpc = <<>>
    /\ hCode = <<>>
    /\ srv = "off"
    /\ ctxDone = FALSE

MainOff ==
    /\ mpc = "off"
    /\ mEvents = [isNil |-> TRUE, elems |-> <<>>]
    /\ trace = <<>>
    /\ mOut = [exit |-> -1, msg |-> "off"]
    /\ mLog = [off |-> TRUE]

-----------------------------------------------------------------------------
(* Bounds *)

MaxLen == 3      \* longest events list
MaxTime == 3     \* instants are 0..MaxTime

Instants == 0..MaxTime

-----------------------------------------------------------------------------
(* Data types: calendar.go:13-27 *)

Nil == 0

MeetingInfo == [Start : Instants, End : Instants]

\* status := &MeetingStatus{} : a freshly allocated record, both fields nil
NewMeetingStatus == [allocated |-> TRUE, CurrentMeeting |-> Nil, NextMeeting |-> Nil]

\* the value of `ret` before any call has returned
NoReturn == [outcome |-> "none", allocated |-> FALSE, CurrentMeeting |-> Nil, NextMeeting |-> Nil]

\* a nil-pointer dereference: the call does not return
Panic(st) == [st EXCEPT !.panicked = TRUE]

-----------------------------------------------------------------------------
(* time.Time comparisons used by the reducer *)

Before(t, u) == t < u

After(t, u) == t > u

-----------------------------------------------------------------------------
(* The loop body of GetMeetingStatus, calendar.go:103-119.                 *)
(* st is the running state of the call: the heap it runs on, the status    *)
(* object it fills, and whether it has panicked.                           *)

\* calendar.go:105 (mutant: the strict comparison of an earlier revision)
IsCurrentStrictStart(t, meeting) == After(t, meeting.Start) /\ Before(t, meeting.End)

\* calendar.go:105 (mutant: the End bound forgotten)
IsCurrentNoEnd(t, meeting) == ~Before(t, meeting.Start)

\* calendar.go:105   !now.Before(meeting.Start) && now.Before(meeting.End)
IsCurrent(t, meeting) == ~Before(t, meeting.Start) /\ Before(t, meeting.End)

\* calendar.go:114 (mutant: non-strict comparison)
IsFutureNonStrict(t, meeting) == ~After(t, meeting.Start)

\* calendar.go:114 (mutant: "not ended yet" instead of "not started yet")
IsFutureNotEnded(t, meeting) == Before(t, meeting.End)

\* calendar.go:114   now.Before(meeting.Start)
IsFuture(t, meeting) == Before(t, meeting.Start)

\* calendar.go:107 (mutant: comparison reversed)
ReplacesCurrentEarlier(st, meeting) ==
    \/ st.CurrentMeeting = Nil
    \/ Before(meeting.Start, st.heap[st.CurrentMeeting].Start)

\* calendar.go:107 (mutant: a later equal candidate replaces)
ReplacesCurrentOrEqual(st, meeting) ==
    \/ st.CurrentMeeting = Nil
    \/ ~Before(meeting.Start, st.heap[st.CurrentMeeting].Start)

\* calendar.go:107   status.CurrentMeeting == nil || meeting.Start.After(status.CurrentMeeting.Start)
ReplacesCurrent(st, meeting) ==
    \/ st.CurrentMeeting = Nil
    \/ After(meeting.Start, st.heap[st.CurrentMeeting].Start)

\* calendar.go:115 (mutant: first future meeting kept, as for sorted input)
ReplacesNextFirstOnly(st, meeting) == st.NextMeeting = Nil

\* calendar.go:115   status.NextMeeting == nil || meeting.Start.Before(status.NextMeeting.Start)
ReplacesNext(st, meeting) ==
    \/ st.NextMeeting = Nil
    \/ Before(meeting.Start, st.heap[st.NextMeeting].Start)

\* calendar.go:108 (mutant: a copy of the meeting is stored)
SetCurrentCopy(st, p) ==
    [st EXCEPT !.heap = Append(@, @[p]), !.CurrentMeeting = Len(st.heap) + 1]

\* calendar.go:108   status.CurrentMeeting = meeting
SetCurrent(st, p) == [st EXCEPT !.CurrentMeeting = p]

\* calendar.go:116   status.NextMeeting = meeting
SetNext(st, p) == [st EXCEPT !.NextMeeting = p]

\* calendar.go:103-119, one iteration with meeting = p
LoopBody(st, t, p) ==
    IF p = Nil
    THEN Panic(st)                         \* meeting.Start on a nil *MeetingInfo
    ELSE LET meeting == st.heap[p] IN
         IF IsCurrent(t, meeting)
         THEN IF ReplacesCurrent(st, meeting) THEN SetCurrent(st, p) ELSE st   \* continue
         ELSE IF IsFuture(t, meeting)
              THEN IF ReplacesNext(st, meeting) THEN SetNext(st, p) ELSE st
              ELSE st

RECURSIVE RangeLoop(_, _, _, _)
\* calendar.go:103   for _, meeting := range events, from position i on
RangeLoop(st, t, elems, i) ==
    IF i > Len(elems) \/ st.panicked
    THEN st
    ELSE RangeLoop(LoopBody(st, t, elems[i]), t, elems, i + 1)

\* calendar.go:99-122 (mutant: nothing to report yields a nil status)
GetMeetingStatusNilWhenEmpty(h, ev, t) ==
    LET st == RangeLoop([heap |-> h, panicked |-> FALSE,
                         allocated |-> TRUE, CurrentMeeting |-> Nil, NextMeeting |-> Nil],
                        t, ev.elems, 1)
    IN IF st.CurrentMeeting = Nil /\ st.NextMeeting = Nil
       THEN [st EXCEPT !.allocated = FALSE]
       ELSE st

\* calendar.go:99-122   GetMeetingStatus(events) with time.Now() = t on heap h
GetMeetingStatus(h, ev, t) ==
    RangeLoop([heap |-> h, panicked |-> FALSE,
               allocated |-> NewMeetingStatus.allocated,
               CurrentMeeting |-> NewMeetingStatus.CurrentMeeting,
               NextMeeting |-> NewMeetingStatus.NextMeeting],
              t, ev.elems, 1)

-----------------------------------------------------------------------------
(* Inputs.  The producer (GetTodayEvents, calendar.go:84-92) allocates one *)
(* MeetingInfo per list element, so the k-th non-nil element points to     *)
(* heap object k.  A nil element can come from a cache file holding a      *)
(* JSON null (cache.Read unmarshals into []*MeetingInfo).                  *)

NilCell == [isNil |-> TRUE, Start |-> 0, End |-> 0]

Cells == {[isNil |-> FALSE, Start |-> s, End |-> e] : s \in Instants, e \in Instants}
             \cup {NilCell}

CellLists == UNION {[1..n -> Cells] : n \in 0..MaxLen}

IsObj(c) == ~c.isNil

\* the heap objects behind a list of cells, in allocation order
HeapOf(cells) ==
    LET objs == SelectSeq(cells, IsObj)
    IN [k \in 1..Len(objs) |-> [Start |-> objs[k].Start, End |-> objs[k].End]]

\* the pointers of a list of cells: nil, or the address of the cell's object
ElemsOf(cells) ==
    [i \in 1..Len(cells) |->
        IF cells[i].isNil THEN Nil
        ELSE Cardinality({j \in 1..i : ~cells[j].isNil})]

NilSlice == [isNil |-> TRUE, elems |-> <<>>]

InitStatus ==
    /\ \E cells \in CellLists :
          /\ heap = HeapOf(cells)
          /\ \/ events = [isNil |-> FALSE, elems |-> ElemsOf(cells)]
             \/ cells = <<>> /\ events = NilSlice
    /\ now \in Instants
    /\ pc = "ready"
    /\ ret = NoReturn
    /\ FilterOff
    /\ CacheOff
    /\ MainOff
    /\ RaceOff
    /\ NotifyOff
    /\ RunsOff
    /\ LoginOff

\* one call of GetMeetingStatus(events), calendar.go:99-122 (called at main.go:236)
CallGetMeetingStatus ==
    /\ pc = "ready"
    /\ LET st == GetMeetingStatus(heap, events, now) IN
          /\ heap' = st.heap
          /\ ret' = IF st.panicked
                    THEN [outcome |-> "panic", allocated |-> FALSE,
                          CurrentMeeting |-> Nil, NextMeeting |-> Nil]
                    ELSE [outcome |-> "returned", allocated |-> st.allocated,
                          CurrentMeeting |-> st.CurrentMeeting,
                          NextMeeting |-> st.NextMeeting]
    /\ pc' = "done"
    /\ UNCHANGED <<events, now>>
    /\ UNCHANGED <<filterVars, cacheVars, mainVars, raceVars, notifyVars, runsVars, loginVars>>

NextStatus == CallGetMeetingStatus

SpecStatus == InitStatus /\ [][NextStatus]_vars

-----------------------------------------------------------------------------
(* Vocabulary of the properties, stated on the inputs of the call *)

Elems == events.elems

Positions == 1..Len(Elems)

NoNilElement == \A i \in Positions : Elems[i] # Nil

\* the call has returned a status (it did not panic)
Returned == pc = "done" /\ ret.outcome = "returned"

\* Start <= now < End
InProgress(p) == heap[p].Start <= now /\ now < heap[p].End

\* now < Start
Upcoming(p) == now < heap[p].Start

Duration(p) == heap[p].End - heap[p].Start

-----------------------------------------------------------------------------
\* C1: CurrentMeeting is present iff some meeting of the list has
\* Start <= now < End, and the returned one satisfies it; a meeting ending at
\* now is never current, a meeting starting at now (and not yet ended) is, and
\* for back-to-back X (ending at now), Y (starting at now) the current is Y.
C1_CurrentIffInProgress ==
    Returned =>
        /\ (ret.CurrentMeeting # Nil) <=> (\E i \in Positions : InProgress(Elems[i]))
        /\ ret.CurrentMeeting # Nil =>
              /\ InProgress(ret.CurrentMeeting)
              /\ heap[ret.CurrentMeeting].End # now
        /\ \A i \in Positions :
              (heap[Elems[i]].Start = now /\ now < heap[Elems[i]].End) =>
                  /\ ret.CurrentMeeting # Nil
                  /\ heap[ret.CurrentMeeting].Start = now
        /\ \A i, j \in Positions :
              ( /\ Len(Elems) = 2 /\ i # j
                /\ heap[Elems[i]].Start < now /\ heap[Elems[i]].End = now
                /\ heap[Elems[j]].Start = now /\ now < heap[Elems[j]].End )
              => ret.CurrentMeeting = Elems[j]

\* back-to-back meetings: X ends at now, Y starts at now, Y is current
C1_Witness ==
    /\ Returned
    /\ Len(Elems) = 2
    /\ heap[Elems[1]].Start < now /\ heap[Elems[1]].End = now
    /\ heap[Elems[2]].Start = now /\ now < heap[Elems[2]].End
    /\ ret.CurrentMeeting = Elems[2]
    /\ ret.NextMeeting = Nil

\* C2: NextMeeting is present iff some meeting of the list has now < Start
\* (strictly), and the returned one satisfies it, whatever else is in the list
\* (in particular a meeting overlapping the ongoing current meeting).
C2_NextIffUpcoming ==
    Returned =>
        /\ (ret.NextMeeting # Nil) <=> (\E i \in Positions : Upcoming(Elems[i]))
        /\ ret.NextMeeting # Nil => Upcoming(ret.NextMeeting)

\* a not yet started meeting that overlaps the current one is the next meeting
C2_Witness ==
    /\ Returned
    /\ ret.CurrentMeeting # Nil
    /\ ret.NextMeeting # Nil
    /\ heap[ret.NextMeeting].Start < heap[ret.CurrentMeeting].End
    /\ now < heap[ret.NextMeeting].Start

\* C3: among the meetings that are current at now, the returned CurrentMeeting
\* has the latest Start (so with pairwise different Start it is the one that
\* started last), whatever the positions and the End values.
C3_CurrentHasLatestStart ==
    Returned =>
        \A i \in Positions :
            InProgress(Elems[i]) =>
                /\ ret.CurrentMeeting # Nil
                /\ heap[Elems[i]].Start <= heap[ret.CurrentMeeting].Start
                /\ (\A j \in Positions :
                       (InProgress(Elems[j]) /\ j # i) =>
                           heap[Elems[j]].Start < heap[Elems[i]].Start)
                   => ret.CurrentMeeting = Elems[i]

\* three current meetings with pairwise different Start, the latest in the middle
C3_Witness ==
    /\ Returned
    /\ Len(Elems) = 3
    /\ \A i \in Positions : InProgress(Elems[i])
    /\ heap[Elems[1]].Start < heap[Elems[3]].Start
    /\ heap[Elems[3]].Start < heap[Elems[2]].Start
    /\ ret.CurrentMeeting = Elems[2]

\* C4: for a list in any order, no meeting with now < Start starts strictly
\* earlier than the returned NextMeeting.
C4_NextHasEarliestStart ==
    Returned =>
        \A i \in Positions :
            Upcoming(Elems[i]) =>
                /\ ret.NextMeeting # Nil
                /\ heap[ret.NextMeeting].Start <= heap[Elems[i]].Start

\* an unsorted list: the earliest upcoming meeting is not the first one
C4_Witness ==
    /\ Returned
    /\ Len(Elems) = 3
    /\ Upcoming(Elems[2])
    /\ heap[Elems[2]].Start < heap[Elems[3]].Start
    /\ heap[Elems[3]].Start < heap[Elems[1]].Start
    /\ ret.NextMeeting = Elems[2]

\* C5: of two meetings with identical Start and different End that are both
\* current (or both upcoming), the one with the smaller End - Start is chosen,
\* whichever comes first in the list.
C5_ShorterWinsOnEqualStart ==
    Returned =>
        \A i, j \in Positions :
            ( /\ Len(Elems) = 2 /\ i # j
              /\ heap[Elems[i]].Start = heap[Elems[j]].Start
              /\ Duration(Elems[i]) < Duration(Elems[j]) )
            => /\ (InProgress(Elems[i]) /\ InProgress(Elems[j]))
                      => ret.CurrentMeeting = Elems[i]
               /\ (Upcoming(Elems[i]) /\ Upcoming(Elems[j]))
                      => ret.NextMeeting = Elems[i]

\* C6: of candidates with identical Start and identical End (all current, or
\* all upcoming) a later one is never chosen over an earlier one.
C6_FirstWinsOnEqualStartEnd ==
    Returned =>
        \A i, j \in Positions :
            ( /\ i < j
              /\ heap[Elems[i]].Start = heap[Elems[j]].Start
              /\ heap[Elems[i]].End = heap[Elems[j]].End )
            => /\ (InProgress(Elems[i]) /\ InProgress(Elems[j]))
                      => ret.CurrentMeeting # Elems[j]
               /\ (Upcoming(Elems[i]) /\ Upcoming(Elems[j]))
                      => ret.NextMeeting # Elems[j]
               /\ (Len(Elems) = 2 /\ InProgress(Elems[i]))
                      => ret.CurrentMeeting = Elems[i]
               /\ (Len(Elems) = 2 /\ Upcoming(Elems[i]))
                      => ret.NextMeeting = Elems[i]

\* three equal current meetings: the first is returned
C6_Witness ==
    /\ Returned
    /\ Len(Elems) = 3
    /\ \A i \in Positions :
          /\ InProgress(Elems[i])
          /\ heap[Elems[i]] = heap[Elems[1]]
    /\ ret.CurrentMeeting = Elems[1]

\* C7: no meeting is classified by the reducer both as current and as future,
\* and when both CurrentMeeting and NextMeeting are present they are two
\* different elements of the list.
C7_CurrentAndNextExclusive ==
    Returned =>
        /\ \A i \in Positions :
              ~(IsCurrent(now, heap[Elems[i]]) /\ IsFuture(now, heap[Elems[i]]))
        /\ (ret.CurrentMeeting # Nil /\ ret.NextMeeting # Nil) =>
              /\ ret.CurrentMeeting # ret.NextMeeting
              /\ \E i, j \in Positions :
                    /\ i # j
                    /\ Elems[i] = ret.CurrentMeeting
                    /\ Elems[j] = ret.NextMeeting

\* both present, and the next meeting ends after now like the current one
C7_Witness ==
    /\ Returned
    /\ ret.CurrentMeeting # Nil
    /\ ret.NextMeeting # Nil
    /\ now < heap[ret.NextMeeting].End
    /\ Len(Elems) = 3

\* C8: the call is total on lists of meetings: it returns a status object
\* (never a nil status, never a panic), and for a nil list, an empty list or a
\* list without any current or upcoming meeting both fields are nil.
C8_TotalAndEmptyStatus ==
    (pc = "done" /\ NoNilElement) =>
        /\ ret.outcome = "returned"
        /\ ret.allocated
        /\ ( \/ events.isNil
             \/ Elems = <<>>
             \/ \A i \in Positions : ~InProgress(Elems[i]) /\ ~Upcoming(Elems[i]) )
           => (ret.CurrentMeeting = Nil /\ ret.NextMeeting = Nil)

\* a list of past meetings only
C8_Witness ==
    /\ Returned
    /\ Len(Elems) = 3
    /\ \A i \in Positions : heap[Elems[i]].End <= now /\ heap[Elems[i]].Start < now
    /\ ret.allocated
    /\ ret.CurrentMeeting = Nil /\ ret.NextMeeting = Nil

\* the nil list
C8_WitnessNil == Returned /\ events.isNil /\ ret.allocated

\* C9: a returned CurrentMeeting or NextMeeting is one of the pointers of the
\* input list, and the call changes neither the list nor its meetings.
C9_ReturnsInputElements ==
    /\ [](Returned =>
            /\ ret.CurrentMeeting # Nil =>
                  \E i \in Positions : Elems[i] = ret.CurrentMeeting
            /\ ret.NextMeeting # Nil =>
                  \E i \in Positions : Elems[i] = ret.NextMeeting)
    /\ [][heap' = heap /\ events' = events]_vars

\* both fields point into the list
C9_Witness ==
    /\ Returned
    /\ Len(Elems) = 3
    /\ ret.CurrentMeeting = Elems[3]
    /\ ret.NextMeeting = Elems[1]

\* C10: a meeting with End <= Start is accepted (the call returns), is never
\* the CurrentMeeting, and is a next candidate exactly when now < its Start.
C10_NonPositiveDurationTolerated ==
    (pc = "done" /\ NoNilElement) =>
        /\ ret.outcome = "returned"
        /\ \A i \in Positions :
              heap[Elems[i]].End <= heap[Elems[i]].Start =>
                  /\ ret.CurrentMeeting # Elems[i]
                  /\ ret.NextMeeting = Elems[i] => now < heap[Elems[i]].Start
                  /\ now < heap[Elems[i]].Start =>
                        /\ ret.NextMeeting # Nil
                        /\ heap[ret.NextMeeting].Start <= heap[Elems[i]].Start
                        /\ (\A j \in Positions :
                               j # i => ~(now < heap[Elems[j]].Start))
                           => ret.NextMeeting = Elems[i]

\* a negative-duration meeting is the next meeting, a started one is skipped
C10_Witness ==
    /\ Returned
    /\ Len(Elems) = 2
    /\ heap[Elems[1]].End <= heap[Elems[1]].Start /\ heap[Elems[1]].Start <= now
    /\ heap[Elems[2]].End < heap[Elems[2]].Start /\ now < heap[Elems[2]].Start
    /\ ret.CurrentMeeting = Nil
    /\ ret.NextMeeting = Elems[2]

-----------------------------------------------------------------------------
(* Part 2: the response filter FilterAccepted (spec section 4.1; its tests *)
(* are calendar_test.go:581-844).  A filter input object carries the one   *)
(* field the filter reads, SelfResponseStatus.                             *)

MaxFilterLen == 4     \* longest list given to the filter

ResponseStatuses == {"accepted", "declined", "tentative", "needsAction", ""}

\* the value of fOut before the call has returned
NoSlice == [isNil |-> TRUE, elems |-> <<>>, returned |-> FALSE]

\* (mutant: only accepted meetings are kept)
IsAcceptedOnly(meeting) == meeting.SelfResponseStatus = "accepted"

\* keeps a meeting iff selfResponseStatus is accepted or tentative
IsAccepted(meeting) == meeting.SelfResponseStatus \in {"accepted", "tentative"}

\* (mutant: filtering in place, the kept pointer is stored into the input's array)
FilterStepInPlace(st, i) ==
    IF IsAccepted(st.heap[st.input[i]])
    THEN [st EXCEPT !.result = Append(@, st.input[i]),
                    !.input[Len(st.result) + 1] = st.input[i]]
    ELSE st

\* one iteration: the i-th pointer is appended to the result when it is kept
FilterStep(st, i) ==
    IF IsAccepted(st.heap[st.input[i]])
    THEN [st EXCEPT !.result = Append(@, st.input[i])]
    ELSE st

RECURSIVE FilterLoop(_, _)
\* the single pass over the input, from position i on
FilterLoop(st, i) ==
    IF i > Len(st.input) THEN st ELSE FilterLoop(FilterStep(st, i), i + 1)

\* FilterAccepted(events) on heap h: the result starts as an empty, non-nil slice
FilterAccepted(h, ev) ==
    FilterLoop([heap |-> h, input |-> ev.elems, result |-> <<>>], 1)

InitFilter ==
    /\ fHeap \in UNION {[1..n -> [SelfResponseStatus : ResponseStatuses]] : n \in 0..MaxFilterLen}
    /\ \/ fIn = [isNil |-> FALSE, elems |-> [i \in 1..Len(fHeap) |-> i]]
       \/ fHeap = <<>> /\ fIn = NilSlice
    /\ fOut = NoSlice
    /\ fpc = "ready"
    /\ StatusOff
    /\ CacheOff
    /\ MainOff
    /\ RaceOff
    /\ NotifyOff
    /\ RunsOff
    /\ LoginOff

\* one call of FilterAccepted(fIn)
CallFilterAccepted ==
    /\ fpc = "ready"
    /\ LET st == FilterAccepted(fHeap, fIn) IN
          /\ fHeap' = st.heap
          /\ fIn' = [fIn EXCEPT !.elems = st.input]
          /\ fOut' = [isNil |-> FALSE, elems |-> st.result, returned |-> TRUE]
    /\ fpc' = "done"
    /\ UNCHANGED <<statusVars, cacheVars, mainVars, raceVars, notifyVars, runsVars, loginVars>>

NextFilter == CallFilterAccepted

SpecFilter == InitFilter /\ [][NextFilter]_vars

\* the response status of the object behind a pointer
StatusOf(p) == fHeap[p].SelfResponseStatus

\* C11: the result is exactly the subsequence of the input whose status is
\* accepted or tentative, in input order: every kept pointer is an input
\* element with such a status, each such input element is kept once, and the
\* kept pointers appear in the order of their input positions (element i of
\* the input is object i).
C11_FilterKeepsAcceptedInOrder ==
    fpc = "done" =>
        /\ fOut.returned
        /\ \A k \in 1..Len(fOut.elems) :
              /\ \E i \in 1..Len(fIn.elems) : fIn.elems[i] = fOut.elems[k]
              /\ StatusOf(fOut.elems[k]) \in {"accepted", "tentative"}
              /\ StatusOf(fOut.elems[k]) \notin {"declined", "needsAction", ""}
        /\ \A i \in 1..Len(fIn.elems) :
              StatusOf(fIn.elems[i]) \in {"accepted", "tentative"} =>
                  Cardinality({k \in 1..Len(fOut.elems) : fOut.elems[k] = fIn.elems[i]}) = 1
        /\ \A k, l \in 1..Len(fOut.elems) : k < l => fOut.elems[k] < fOut.elems[l]

\* accepted, declined, tentative, needsAction in a row: objects 1 and 3 are kept
C11_Witness ==
    /\ fpc = "done"
    /\ Len(fIn.elems) = 4
    /\ StatusOf(1) = "accepted" /\ StatusOf(2) = "declined"
    /\ StatusOf(3) = "tentative" /\ StatusOf(4) = "needsAction"
    /\ fOut.elems = <<1, 3>>

\* C12: the call leaves the input slice and its meetings as they were, also
\* when elements are dropped from the result.
C12_FilterLeavesInputUnchanged ==
    [][fpc = "ready" => (fIn' = fIn /\ fHeap' = fHeap)]_vars

\* a call that dropped the first element and kept the second
C12_Witness ==
    /\ fpc = "done"
    /\ Len(fIn.elems) = 2
    /\ fIn.elems = <<1, 2>>
    /\ StatusOf(1) = "declined" /\ StatusOf(2) = "accepted"
    /\ fOut.elems = <<2>>

-----------------------------------------------------------------------------
(* Part 3: the snapshot cache, src/cache/cache.go.                         *)
(* A payload is a Go slice value [isNil, elems] of MeetingInfo values.     *)
(* The file holds nothing, bytes that do not parse, or the JSON document   *)
(* json.Marshal produced for a CachedData.                                 *)

MaxClock == 5         \* the clock runs over 0..MaxClock
MaxPayloadLen == 2    \* longest event list written to the cache

\* cache.go:14   cacheDuration = 30 * time.Minute, in clock units of ten minutes
CacheDuration == 3

Clock == 0..MaxClock

\* the meetings that occur in cached payloads
PayloadMeetings == {[Start |-> 1, End |-> 2], [Start |-> 2, End |-> 4]}

\* the []*MeetingInfo values handed to Write: the nil slice and the non-nil lists
Payloads ==
    {NilSlice} \cup
    {[isNil |-> FALSE, elems |-> l] :
        l \in UNION {[1..n -> PayloadMeetings] : n \in 0..MaxPayloadLen}}

Missing == [kind |-> "missing"]

\* content that json.Unmarshal rejects (empty, truncated or foreign bytes)
Garbage == [kind |-> "garbage"]

\* time.Time <-> its JSON form (an RFC 3339 string)
TimeToJSON(t) == [rfc3339 |-> t]

TimeFromJSON(j) == j.rfc3339

\* MeetingInfo has no json tags: the keys are the field names
MarshalMeeting(m) == [Start |-> TimeToJSON(m.Start), End |-> TimeToJSON(m.End)]

UnmarshalMeeting(j) == [Start |-> TimeFromJSON(j.Start), End |-> TimeFromJSON(j.End)]

\* cache.go:20 (mutant: `json:"events,omitempty"`, an empty list is left out)
MarshalEventsOmitEmpty(ev) ==
    IF ev.isNil \/ ev.elems = <<>>
    THEN [type |-> "null", items |-> <<>>]
    ELSE [type |-> "array",
          items |-> [i \in 1..Len(ev.elems) |-> MarshalMeeting(ev.elems[i])]]

\* cache.go:20, :56   a nil slice is encoded as null, any other slice as an array
MarshalEvents(ev) ==
    IF ev.isNil
    THEN [type |-> "null", items |-> <<>>]
    ELSE [type |-> "array",
          items |-> [i \in 1..Len(ev.elems) |-> MarshalMeeting(ev.elems[i])]]

\* cache.go:20, :37   null leaves the field nil, an array yields a non-nil slice
UnmarshalEvents(j) ==
    IF j.type = "null"
    THEN NilSlice
    ELSE [isNil |-> FALSE,
          elems |-> [i \in 1..Len(j.items) |-> UnmarshalMeeting(j.items[i])]]

\* cache.go:56   json.Marshal(cached)
Marshal(cached) ==
    [kind |-> "json",
     timestamp |-> TimeToJSON(cached.Timestamp),
     events |-> MarshalEvents(cached.Events)]

\* cache.go:37   json.Unmarshal(data, &cached), for content that parses
Unmarshal(data) ==
    [Timestamp |-> TimeFromJSON(data.timestamp),
     Events |-> UnmarshalEvents(data.events)]

\* every content the file can have
FileContents ==
    {Missing, Garbage} \cup
    {Marshal([Timestamp |-> t, Events |-> p]) : t \in Clock, p \in Payloads}

\* cache.go:43 (mutant: an entry of exactly the cache duration is stale)
IsExpiredAtLimit(t, timestamp) == t - timestamp >= CacheDuration

\* cache.go:43   time.Since(cached.Timestamp) > cacheDuration
IsExpired(t, timestamp) == t - timestamp > CacheDuration

\* cache.go:30-47 (mutant: content that is of no use is removed by the read)
ReadRemovingUseless(f, t) ==
    IF f.kind = "missing"
    THEN [events |-> NilSlice, file |-> f]
    ELSE IF f.kind = "garbage"
    THEN [events |-> NilSlice, file |-> Missing]
    ELSE IF IsExpired(t, Unmarshal(f).Timestamp)
         THEN [events |-> NilSlice, file |-> Missing]
         ELSE [events |-> Unmarshal(f).Events, file |-> f]

\* cache.go:30-47   Read() at instant t on file content f
Read(f, t) ==
    IF f.kind = "missing"
    THEN [events |-> NilSlice, file |-> f]                 \* os.ReadFile fails
    ELSE IF f.kind = "garbage"
    THEN [events |-> NilSlice, file |-> f]                 \* json.Unmarshal fails
    ELSE IF IsExpired(t, Unmarshal(f).Timestamp)
         THEN [events |-> NilSlice, file |-> f]
         ELSE [events |-> Unmarshal(f).Events, file |-> f]

\* the ways os.WriteFile (open with O_TRUNC, write, close) can end
WriteOutcomes == {"ok", "openfail", "writefail"}

\* cache.go:50-62   Write(ev) at instant t; io is how os.WriteFile ends
Write(f, ev, t, io) ==
    LET data == Marshal([Timestamp |-> t, Events |-> ev]) IN
    IF io = "ok" THEN [file |-> data, err |-> FALSE]
    ELSE IF io = "openfail" THEN [file |-> f, err |-> TRUE]
    ELSE [file |-> Garbage, err |-> TRUE]                  \* truncated, not written

\* cache.go:65-71 (mutant: the os.IsNotExist check is missing)
ClearStrict(f, io) ==
    IF f.kind = "missing" THEN [file |-> f, err |-> TRUE]
    ELSE IF io = "ok" THEN [file |-> Missing, err |-> FALSE]
    ELSE [file |-> f, err |-> TRUE]

\* cache.go:65-71   Clear(); io is how os.Remove ends on an existing file
Clear(f, io) ==
    IF f.kind = "missing" THEN [file |-> f, err |-> FALSE]      \* os.IsNotExist(err)
    ELSE IF io = "ok" THEN [file |-> Missing, err |-> FALSE]
    ELSE [file |-> f, err |-> TRUE]

NoWrite == [valid |-> FALSE]

InitCache ==
    /\ file \in FileContents
    /\ clock = 0
    /\ lastOp = [op |-> "none"]
    /\ lastWrite = NoWrite
    /\ clearsInRow = 0
    /\ StatusOff
    /\ FilterOff
    /\ MainOff
    /\ RaceOff
    /\ NotifyOff
    /\ RunsOff
    /\ LoginOff

\* time passes
CacheTick ==
    /\ clock < MaxClock
    /\ clock' = clock + 1
    /\ UNCHANGED <<file, lastOp, lastWrite, clearsInRow>>
    /\ UNCHANGED <<statusVars, filterVars, mainVars, raceVars, notifyVars, runsVars, loginVars>>

\* a call of cache.Read()
CacheRead ==
    /\ LET r == Read(file, clock) IN
          /\ file' = r.file
          /\ lastOp' = [op |-> "read", at |-> clock, before |-> file,
                        events |-> r.events, err |-> FALSE]
    /\ UNCHANGED <<clock, lastWrite, clearsInRow>>
    /\ UNCHANGED <<statusVars, filterVars, mainVars, raceVars, notifyVars, runsVars, loginVars>>

\* a call of cache.Write(ev)
CacheWrite ==
    /\ \E ev \in Payloads, io \in WriteOutcomes :
          LET r == Write(file, ev, clock, io) IN
             /\ file' = r.file
             /\ lastOp' = [op |-> "write", at |-> clock, before |-> file,
                           events |-> ev, err |-> r.err]
             /\ lastWrite' = IF r.err THEN NoWrite
                             ELSE [valid |-> TRUE, events |-> ev, at |-> clock]
    /\ clearsInRow' = 0
    /\ UNCHANGED clock
    /\ UNCHANGED <<statusVars, filterVars, mainVars, raceVars, notifyVars, runsVars, loginVars>>

\* a call of cache.Clear()
CacheClear ==
    /\ \E io \in {"ok", "fail"} :
          LET r == Clear(file, io) IN
             /\ file' = r.file
             /\ lastOp' = [op |-> "clear", at |-> clock, before |-> file,
                           events |-> NilSlice, err |-> r.err]
             /\ clearsInRow' = IF r.err THEN 0
                               ELSE IF clearsInRow < 2 THEN clearsInRow + 1 ELSE 2
    /\ lastWrite' = NoWrite
    /\ UNCHANGED clock
    /\ UNCHANGED <<statusVars, filterVars, mainVars, raceVars, notifyVars, runsVars, loginVars>>

NextCache == CacheTick \/ CacheRead \/ CacheWrite \/ CacheClear

SpecCache == InitCache /\ [][NextCache]_vars

\* the age of the entry that a read found, at the time of the read
AgeAtRead == lastOp.at - TimeFromJSON(lastOp.before.timestamp)

\* C13: a successful Write(payload) replaces whatever the file held, and a
\* Read within the cache duration after it (no other Write or Clear in
\* between) returns a payload equal to the written one.
C13_WriteReadRoundTrip ==
    /\ (lastOp.op = "write" /\ ~lastOp.err) =>
          /\ file.kind = "json"
          /\ file = Marshal([Timestamp |-> lastOp.at, Events |-> lastOp.events])
    /\ ( /\ lastOp.op = "read"
         /\ lastWrite.valid
         /\ lastOp.at - lastWrite.at <= CacheDuration )
       => lastOp.events = lastWrite.events

\* an empty (non-nil) list written, and read back at the very end of the window
C13_Witness ==
    /\ lastOp.op = "read"
    /\ lastWrite.valid
    /\ lastOp.at = lastWrite.at + CacheDuration
    /\ lastWrite.events = [isNil |-> FALSE, elems |-> <<>>]
    /\ lastOp.events = [isNil |-> FALSE, elems |-> <<>>]

\* a two-element list written over other content and read back
C13_WitnessList ==
    /\ lastOp.op = "read"
    /\ lastWrite.valid
    /\ Len(lastWrite.events.elems) = 2
    /\ lastOp.events = lastWrite.events

\* C14: a Read returns nil whenever the stored timestamp is more than the
\* cache duration before the read, whatever the payload; an entry of at most
\* that age (exactly that age included) is returned; the stale entry stays in
\* the file: only Write and Clear change the file.
C14_ExpiryAtRead ==
    /\ []( (lastOp.op = "read" /\ lastOp.before.kind = "json") =>
              /\ AgeAtRead > CacheDuration => lastOp.events.isNil
              /\ AgeAtRead <= CacheDuration =>
                    lastOp.events = UnmarshalEvents(lastOp.before.events)
              /\ file = lastOp.before )
    /\ [][file' # file => lastOp'.op \in {"write", "clear"}]_vars

\* a non-empty entry just past the cache duration is not returned and stays
C14_Witness ==
    /\ lastOp.op = "read"
    /\ lastOp.before.kind = "json"
    /\ lastOp.before.events.type = "array"
    /\ Len(lastOp.before.events.items) = 2
    /\ AgeAtRead = CacheDuration + 1
    /\ lastOp.events.isNil
    /\ file = lastOp.before

\* an entry of exactly the cache duration is still returned
C14_WitnessAtLimit ==
    /\ lastOp.op = "read"
    /\ lastOp.before.kind = "json"
    /\ AgeAtRead = CacheDuration
    /\ ~lastOp.events.isNil

\* C15: Read reports no error; on a missing file and on content that does not
\* parse it returns nil as for a stale entry, and in all three cases the file
\* is left as it was.
C15_ReadMissIsSilent ==
    lastOp.op = "read" =>
        /\ ~lastOp.err
        /\ ( \/ lastOp.before.kind = "missing"
             \/ lastOp.before.kind = "garbage"
             \/ (lastOp.before.kind = "json" /\ AgeAtRead > CacheDuration) )
           => (lastOp.events = NilSlice /\ file = lastOp.before)

\* a read of content that does not parse
C15_Witness ==
    /\ lastOp.op = "read"
    /\ lastOp.before.kind = "garbage"
    /\ lastOp.events = NilSlice
    /\ file = Garbage

\* C16: Clear succeeds on a missing file (so twice in a row), and after a
\* successful Clear the file is gone and every Read returns nil until the next
\* Write.
C16_ClearIdempotentAndEmpties ==
    /\ (lastOp.op = "clear" /\ lastOp.before.kind = "missing") => ~lastOp.err
    /\ (lastOp.op = "clear" /\ ~lastOp.err) => file.kind = "missing"
    /\ clearsInRow > 0 => file.kind = "missing"
    /\ (lastOp.op = "read" /\ clearsInRow > 0) => lastOp.events.isNil

\* the second of two successful Clears in a row
C16_Witness ==
    /\ lastOp.op = "clear"
    /\ ~lastOp.err
    /\ lastOp.before.kind = "missing"
    /\ clearsInRow = 2

-----------------------------------------------------------------------------
(* Part 4: one invocation of the program, src/main.go:185-310, with        *)
(* GetTodayEvents (calendar.go:44-96) as the fetch.  The environment       *)
(* decides the flags, the login state, what the API answers, how the file  *)
(* operations end and whether stderr can be written.                       *)

\* what the calendar API lists: timed events and all-day events (Start.DateTime == "")
ApiItems ==
    {[timed |-> TRUE, Start |-> m.Start, End |-> m.End] : m \in PayloadMeetings}
        \cup {[timed |-> FALSE, Start |-> 0, End |-> 0]}

ApiItemLists == UNION {[1..n -> ApiItems] : n \in 0..MaxPayloadLen}

RECURSIVE EventsLoop(_, _, _)
\* calendar.go:66-93   var result []*MeetingInfo; all-day items are skipped
EventsLoop(result, items, i) ==
    IF i > Len(items) THEN result
    ELSE IF ~items[i].timed
         THEN EventsLoop(result, items, i + 1)               \* continue
         ELSE EventsLoop([isNil |-> FALSE,
                          elems |-> Append(result.elems,
                                           [Start |-> items[i].Start, End |-> items[i].End])],
                         items, i + 1)

\* calendar.go:44-96   the events GetTodayEvents returns for the listed items
GetTodayEvents(items) == EventsLoop(NilSlice, items, 1)

\* error chains (outermost first) that GetTodayEvents can return, calendar.go:62-64
FetchErrors ==
    { <<"*fmt.wrapError", "*url.Error", "*net.OpError">>,
      <<"*fmt.wrapError", "*url.Error", "*net.OpError", "*net.DNSError">>,
      <<"*fmt.wrapError", "*net.DNSError">>,
      <<"*fmt.wrapError", "*googleapi.Error">>,
      <<"*fmt.wrapError", "*url.Error", "context.deadlineExceededError">> }

\* main.go:313-325 (mutant: the net.DNSError check is missing)
isNetworkErrorOpOnly(err) == \E i \in 1..Len(err) : err[i] = "*net.OpError"

\* main.go:313-325   errors.As(err, &netErr) || errors.As(err, &dnsErr)
isNetworkError(err) ==
    \/ \E i \in 1..Len(err) : err[i] = "*net.OpError"
    \/ \E i \in 1..Len(err) : err[i] = "*net.DNSError"

NoStatus == [CurrentMeeting |-> Nil, NextMeeting |-> Nil]

\* main.go:304-310   errorAndExit: the message goes to stderr, then os.Exit(1);
\* a failed write to stderr panics instead
errorAndExit(msg, stderrOK) ==
    IF stderrOK
    THEN [exit |-> 1, msg |-> msg, status |-> NoStatus, stderr |-> "written"]
    ELSE [exit |-> 2, msg |-> "panic", status |-> NoStatus, stderr |-> "failed"]

\* main.go:228 (mutant: an empty list is taken for a miss as well)
NeedsFetchWhenEmpty(ev) == ev.isNil \/ ev.elems = <<>>

\* main.go:228   if events == nil
NeedsFetch(ev) == ev.isNil

Running == [exit |-> -1, msg |-> "none", status |-> NoStatus, stderr |-> "unused"]

\* the log at the start of an invocation that finds file content f
StartLog(f) ==
    [file0 |-> f,
     read |-> [done |-> FALSE, events |-> NilSlice],
     fetch |-> [state |-> "none", chain |-> <<>>, events |-> NilSlice],
     write |-> "none"]

InitMain ==
    /\ file \in FileContents
    /\ clock \in Clock
    /\ CacheLogOff
    /\ mpc = "start"
    /\ mEvents = NilSlice
    /\ trace = <<>>
    /\ mOut = Running
    /\ mLog = StartLog(file)
    /\ StatusOff
    /\ FilterOff
    /\ RaceOff
    /\ NotifyOff
    /\ RunsOff
    /\ LoginOff

MainFrame ==
    UNCHANGED <<clock, lastOp, lastWrite, clearsInRow, statusVars, filterVars, raceVars,
                notifyVars, runsVars, loginVars>>

\* main.go:193-200   --clear-cache
MainClearCache ==
    /\ mpc = "start"
    /\ \E io \in {"ok", "fail"}, stderrOK \in BOOLEAN :
          LET r == Clear(file, io) IN
             /\ file' = r.file
             /\ mOut' = IF r.err THEN errorAndExit("Error clearing cache", stderrOK)
                        ELSE [exit |-> 0, msg |-> "Cache cleared", status |-> NoStatus,
                              stderr |-> "unused"]
    /\ trace' = Append(trace, "cache.Clear")
    /\ mpc' = "exited"
    /\ UNCHANGED <<mEvents, mLog>>
    /\ MainFrame

\* main.go:202-219   --clear and --login: the credentials, not the cache
MainCredentials ==
    /\ mpc = "start"
    /\ \E ok \in BOOLEAN, stderrOK \in BOOLEAN :
          mOut' = IF ok THEN [exit |-> 0, msg |-> "credentials", status |-> NoStatus,
                              stderr |-> "unused"]
                  ELSE errorAndExit("Error credentials", stderrOK)
    /\ mpc' = "exited"
    /\ UNCHANGED <<file, mEvents, trace, mLog>>
    /\ MainFrame

\* main.go:221-224   not logged in
MainNotLoggedIn ==
    /\ mpc = "start"
    /\ \E stderrOK \in BOOLEAN : mOut' = errorAndExit("Not logged in", stderrOK)
    /\ mpc' = "exited"
    /\ UNCHANGED <<file, mEvents, trace, mLog>>
    /\ MainFrame

\* main.go:221-231   logged in: events := cache.Read(), then the nil test
MainRead ==
    /\ mpc = "start"
    /\ LET r == Read(file, clock) IN
          /\ file' = r.file
          /\ mEvents' = r.events
          /\ mLog' = [mLog EXCEPT !.read = [done |-> TRUE, events |-> r.events]]
          /\ mpc' = IF NeedsFetch(r.events) THEN "fetch" ELSE "status"
    /\ trace' = Append(trace, "cache.Read")
    /\ UNCHANGED mOut
    /\ MainFrame

\* main.go:276-285   getAndCacheEvents: no client or no service, nothing is fetched
MainNoClient ==
    /\ mpc = "fetch"
    /\ \E stderrOK \in BOOLEAN :
          mOut' = errorAndExit("Error getting authenticated client", stderrOK)
    /\ mpc' = "exited"
    /\ UNCHANGED <<file, mEvents, trace, mLog>>
    /\ MainFrame

\* main.go:287-294   getAndCacheEvents: GetTodayEvents fails
MainFetchFails ==
    /\ mpc = "fetch"
    /\ \E err \in FetchErrors, stderrOK \in BOOLEAN :
          /\ mLog' = [mLog EXCEPT !.fetch = [state |-> "err", chain |-> err, events |-> NilSlice]]
          /\ mOut' = IF isNetworkError(err)
                     THEN errorAndExit("Calendar Offline", stderrOK)
                     ELSE errorAndExit("Error getting events", stderrOK)
    /\ trace' = Append(trace, "GetTodayEvents")
    /\ mpc' = "exited"
    /\ UNCHANGED <<file, mEvents>>
    /\ MainFrame

\* main.go:287-300   getAndCacheEvents: GetTodayEvents succeeds, then cache.Write
MainFetchAndCache ==
    /\ mpc = "fetch"
    /\ \E items \in ApiItemLists, io \in WriteOutcomes, stderrOK \in BOOLEAN :
          LET fetched == GetTodayEvents(items)
              w == Write(file, fetched, clock, io)
          IN /\ file' = w.file
             /\ mLog' = [mLog EXCEPT
                            !.fetch = [state |-> "ok", chain |-> <<>>, events |-> fetched],
                            !.write = IF w.err THEN "fail" ELSE "ok"]
             /\ IF w.err
                THEN /\ mOut' = errorAndExit("Warning: failed to cache results", stderrOK)
                     /\ mpc' = "exited"
                     /\ UNCHANGED mEvents
                ELSE /\ mEvents' = fetched
                     /\ mpc' = "status"
                     /\ UNCHANGED mOut
    /\ trace' = trace \o <<"GetTodayEvents", "cache.Write">>
    /\ MainFrame

\* main.go:234-243   status := GetMeetingStatus(events); buildParts; print
MainStatus ==
    /\ mpc = "status"
    /\ LET st == GetMeetingStatus(mEvents.elems,
                                  [isNil |-> mEvents.isNil,
                                   elems |-> [i \in 1..Len(mEvents.elems) |-> i]],
                                  clock)
       IN mOut' = [exit |-> 0,
                   msg |-> IF st.CurrentMeeting = Nil /\ st.NextMeeting = Nil
                           THEN "No meetings" ELSE "parts",
                   status |-> [CurrentMeeting |-> st.CurrentMeeting,
                               NextMeeting |-> st.NextMeeting],
                   stderr |-> "unused"]
    /\ trace' = Append(trace, "GetMeetingStatus")
    /\ mpc' = "exited"
    /\ UNCHANGED <<file, mEvents, mLog>>
    /\ MainFrame

NextMain ==
    \/ MainClearCache
    \/ MainCredentials
    \/ MainNotLoggedIn
    \/ MainRead
    \/ MainNoClient
    \/ MainFetchFails
    \/ MainFetchAndCache
    \/ MainStatus

SpecMain == InitMain /\ [][NextMain]_vars

\* the calls of the trace
Called(name) == \E i \in 1..Len(trace) : trace[i] = name

StatusPrinted == mOut.msg \in {"No meetings", "parts"}

\* C17: a network fetch is preceded by a cache read, and the fetch and the
\* cache write happen only after a read that returned nil; after a read that
\* returned events there is no fetch and no cache write.
C17_ReadBeforeFetchOnlyOnMiss ==
    /\ \A i \in 1..Len(trace) :
          trace[i] \in {"GetTodayEvents", "cache.Write"} =>
              /\ \E j \in 1..(i - 1) : trace[j] = "cache.Read"
              /\ mLog.read.done
              /\ mLog.read.events.isNil
    /\ (mLog.read.done /\ ~mLog.read.events.isNil) =>
          /\ ~Called("GetTodayEvents")
          /\ ~Called("cache.Write")
          /\ mLog.fetch.state = "none"
          /\ mLog.write = "none"
          /\ file = mLog.file0
          /\ mpc \in {"status", "exited"}

\* a hit on a cached empty list: the status is computed without any fetch
C17_Witness ==
    /\ mpc = "exited"
    /\ mLog.read.done
    /\ mLog.read.events = [isNil |-> FALSE, elems |-> <<>>]
    /\ trace = <<"cache.Read", "GetMeetingStatus">>
    /\ mOut.exit = 0

\* a miss: read, fetch, write, status, in this order
C17_WitnessMiss ==
    /\ mpc = "exited"
    /\ trace = <<"cache.Read", "GetTodayEvents", "cache.Write", "GetMeetingStatus">>
    /\ mOut.msg = "parts"

\* C18: when the fetch succeeds and the cache write fails, the invocation
\* still prints the status computed from the fetched events and does not end
\* with an error.
C18_CacheWriteFailureIsOnlyAWarning ==
    (mpc = "exited" /\ mLog.fetch.state = "ok" /\ mLog.write = "fail") =>
        /\ mOut.exit = 0
        /\ StatusPrinted

\* the fetch error has a net.OpError or a net.DNSError in its chain
FetchErrorIsNetwork ==
    \E i \in 1..Len(mLog.fetch.chain) :
        mLog.fetch.chain[i] \in {"*net.OpError", "*net.DNSError"}

-----------------------------------------------------------------------------
(* Part 5: overlapping invocations.  Each invocation runs main.go:225-231  *)
(* and getAndCacheEvents; cache.Write ends in os.WriteFile (cache.go:61),  *)
(* which opens the file with O_CREATE|O_TRUNC and then writes the bytes    *)
(* at offset 0 of its own descriptor.  The open and the write of one       *)
(* invocation are separate system calls; each call is taken as atomic, as  *)
(* is the os.ReadFile of cache.Read.  No file operation fails here.        *)

NProcs == 3      \* overlapping invocations

Procs == 1..NProcs

\* the length of the encoding grows with the number of events
DocLen(doc) == 2 + Len(doc.events.items)

\* the bytes of a document: byte k of the encoding of doc
Bytes(doc) == [k \in 1..DocLen(doc) |-> [doc |-> doc, pos |-> k]]

\* cache.go:61   write(2) of data at offset 0 over the present content
Overlay(old, data) ==
    [k \in 1..(IF Len(old) > Len(data) THEN Len(old) ELSE Len(data)) |->
        IF k <= Len(data) THEN data[k] ELSE old[k]]

\* cache.go:31-39   what ReadFile and Unmarshal make of the file: the bytes
\* parse only if they are exactly the encoding of one document
FileOf(d) ==
    IF ~d.exists THEN Missing
    ELSE IF d.bytes # <<>> /\ d.bytes = Bytes(d.bytes[1].doc) THEN d.bytes[1].doc
    ELSE Garbage

\* cache.go:61 (mutant: the data is written to a fresh file that is renamed over the old one)
WriteBytesAtomic(d, data) == [exists |-> TRUE, bytes |-> data]

\* cache.go:61   the write system call of os.WriteFile
WriteBytes(d, data) == [exists |-> TRUE, bytes |-> Overlay(d.bytes, data)]

InitRace ==
    /\ disk = [exists |-> FALSE, bytes |-> <<>>]
    /\ rpc = [p \in Procs |-> "start"]
    /\ rEv = [p \in Procs |-> NilSlice]
    /\ rRead = [p \in Procs |-> [done |-> FALSE, events |-> NilSlice]]
    /\ written = {}
    /\ lastDone = [valid |-> FALSE]
    /\ StatusOff
    /\ FilterOff
    /\ CacheOff
    /\ MainOff
    /\ NotifyOff
    /\ RunsOff
    /\ LoginOff

RaceFrame == UNCHANGED <<statusVars, filterVars, cacheVars, mainVars, notifyVars, runsVars, loginVars>>

\* main.go:225-231   events := cache.Read(); fetch only when it is nil
RaceRead(p) ==
    /\ rpc[p] = "start"
    /\ LET r == Read(FileOf(disk), clock) IN
          /\ rRead' = [rRead EXCEPT ![p] = [done |-> TRUE, events |-> r.events]]
          /\ rpc' = [rpc EXCEPT ![p] = IF NeedsFetch(r.events) THEN "fetch" ELSE "done"]
    /\ UNCHANGED <<disk, rEv, written, lastDone>>
    /\ RaceFrame

\* main.go:287-297, cache.go:50-59   the fetch, then cache.Write(events) is entered
RaceFetch(p) ==
    /\ rpc[p] = "fetch"
    /\ \E items \in ApiItemLists :
          /\ rEv' = [rEv EXCEPT ![p] = GetTodayEvents(items)]
          /\ written' = written \cup {GetTodayEvents(items)}
    /\ rpc' = [rpc EXCEPT ![p] = "open"]
    /\ UNCHANGED <<disk, rRead, lastDone>>
    /\ RaceFrame

\* cache.go:61   os.WriteFile: open(O_WRONLY|O_CREATE|O_TRUNC)
RaceOpen(p) ==
    /\ rpc[p] = "open"
    /\ disk' = [exists |-> TRUE, bytes |-> <<>>]
    /\ rpc' = [rpc EXCEPT ![p] = "write"]
    /\ UNCHANGED <<rEv, rRead, written, lastDone>>
    /\ RaceFrame

\* cache.go:61   os.WriteFile: write, close; cache.Write returns nil
RaceWrite(p) ==
    /\ rpc[p] = "write"
    /\ disk' = WriteBytes(disk, Bytes(Marshal([Timestamp |-> clock, Events |-> rEv[p]])))
    /\ lastDone' = [valid |-> TRUE, events |-> rEv[p]]
    /\ rpc' = [rpc EXCEPT ![p] = "done"]
    /\ UNCHANGED <<rEv, rRead, written>>
    /\ RaceFrame

NextRace ==
    \E p \in Procs : RaceRead(p) \/ RaceFetch(p) \/ RaceOpen(p) \/ RaceWrite(p)

SpecRace == InitRace /\ [][NextRace]_vars

\* no invocation is inside cache.Write
NoWriteInProgress == \A p \in Procs : rpc[p] \notin {"open", "write"}

\* C20: under every interleaving a Read returns nil or a payload that some
\* invocation passed to Write, and once all writes have completed the file
\* holds the payload of the Write that returned last.
C20_LastWriteWins ==
    /\ \A p \in Procs :
          rRead[p].done => (rRead[p].events.isNil \/ rRead[p].events \in written)
    /\ (NoWriteInProgress /\ lastDone.valid) =>
          /\ FileOf(disk).kind = "json"
          /\ Unmarshal(FileOf(disk)).Events = lastDone.events

-----------------------------------------------------------------------------
(* Part 6: the notification dedup store, package notify                    *)
(* (src/calendar/calendar_test.go:846-1007).  The store is the directory   *)
(* os.TempDir()/next-meeting-notify with one file per notified meeting,    *)
(* named by getNotificationID; a record is such a file, its last write     *)
(* time is the file's ModTime.  The clock runs in units of 24 hours.       *)
(* A time.Time is [t, frac, zone]: t is the instant in clock units, frac   *)
(* the part of the instant below one second, zone the UTC offset the value *)
(* carries.  A *MeetingInfo is an address into NHeap (0 is nil).           *)

MaxNClock == 2      \* the clock runs 0..MaxNClock
MaxThreshold == 3   \* the largest threshold, as a Duration
MaxRecords == 2     \* MarkNotified is called while the store holds fewer records

Retention == 1      \* 24 * time.Hour in clock units, calendar_test.go:997
Resolution == 2     \* Durations count half clock units, so that frac shows in them

NTime(t, frac, zone) == [t |-> t, frac |-> frac, zone |-> zone]

NMeeting(summary, start, end, location) ==
    [Summary |-> summary, Start |-> start, End |-> end, Location |-> location]

\* the MeetingInfo objects a caller can pass, calendar.go:14-21
NHeap ==
    << NMeeting("standup", NTime(1, 0, "Z"), NTime(2, 0, "Z"), ""),
       NMeeting("standup", NTime(1, 0, "Z"), NTime(2, 0, "Z"), "room 1"),      \* other location
       NMeeting("standup", NTime(1, 0, "+02:00"), NTime(2, 0, "+02:00"), ""),  \* same instants, other zone
       NMeeting("standup", NTime(1, 1, "Z"), NTime(2, 0, "Z"), ""),            \* starts a moment later
       NMeeting("review",  NTime(1, 0, "Z"), NTime(2, 0, "Z"), ""),            \* other summary
       NMeeting("standup", NTime(1, 0, "Z"), NTime(3, 0, "Z"), ""),            \* other end
       NMeeting("standup", NTime(2, 0, "Z"), NTime(3, 0, "Z"), "") >>          \* other start

NPointers == 1..Len(NHeap)

Thresholds == {Retention * Resolution, MaxThreshold}

\* the instant of a time.Time, as a count of half clock units
Nanos(x) == x.t * Resolution + x.frac

\* time.Now()
NowTime(t) == NTime(t, 0, "Z")

\* Time.Format(time.RFC3339): the wall-clock reading to the second with the
\* UTC offset of the value, that is the whole second of the instant and the
\* offset; what is below one second is not printed
FormatRFC3339(x) == [second |-> x.t, offset |-> x.zone]

\* calendar_test.go:923-927   the digest stands for the string it is taken of
getNotificationID(meeting) ==
    <<meeting.Summary, FormatRFC3339(meeting.Start), FormatRFC3339(meeting.End)>>

\* calendar_test.go:929-931
getNotifyFilePath(meeting) == getNotificationID(meeting)

NoRecs == [k \in {} |-> 0]

NoStore == [exists |-> FALSE, recs |-> NoRecs]

\* calendar_test.go:934 (mutant: the file is never found)
StatNotFound(st, path) == FALSE

\* calendar_test.go:934   os.Stat(path) returns no error
Stat(st, path) == st.exists /\ path \in DOMAIN st.recs

\* calendar_test.go:933-936
HasBeenNotified(st, meeting) == Stat(st, getNotifyFilePath(meeting))

\* calendar_test.go:945 (mutant: O_EXCL, an existing file is an error)
WriteFileExclusive(st, path, t, io) ==
    IF io = "openfail" \/ path \in DOMAIN st.recs
    THEN [store |-> st, err |-> TRUE]
    ELSE [store |-> [st EXCEPT !.recs = [k \in DOMAIN st.recs \cup {path} |->
                                            IF k = path THEN t ELSE st.recs[k]]],
          err |-> io # "ok"]

\* calendar_test.go:945   os.WriteFile: open with O_CREATE|O_TRUNC, then write
WriteFile(st, path, t, io) ==
    IF io = "openfail"
    THEN [store |-> st, err |-> TRUE]
    ELSE [store |-> [st EXCEPT !.recs = [k \in DOMAIN st.recs \cup {path} |->
                                            IF k = path THEN t ELSE st.recs[k]]],
          err |-> io # "ok"]

\* how MkdirAll and WriteFile can end; MkdirAll of an existing directory succeeds
MarkOutcomes(st) ==
    {"ok", "openfail", "writefail"} \cup (IF st.exists THEN {} ELSE {"mkdirfail"})

\* calendar_test.go:938-946 (mutant: nothing is written)
MarkNotifiedNoRecord(st, meeting, t, io) == [store |-> st, err |-> io # "ok"]

\* calendar_test.go:938-946
MarkNotified(st, meeting, t, io) ==
    IF io = "mkdirfail"
    THEN [store |-> st, err |-> TRUE]
    ELSE WriteFile([st EXCEPT !.exists = TRUE], getNotifyFilePath(meeting), t, io)

\* calendar_test.go:970 (mutant: whole clock units only)
StartsInWholeUnits(meeting, t) == (meeting.Start.t - t) * Resolution

\* calendar_test.go:970   time.Until(status.NextMeeting.Start)
StartsIn(meeting, t) == Nanos(meeting.Start) - Nanos(NowTime(t))

\* calendar_test.go:965-984 (mutant: the record is written by the decision)
ShouldNotifyMarking(st, status, threshold, t) ==
    IF status.NextMeeting = Nil
    THEN [ret |-> Nil, store |-> st, status |-> status, sent |-> 0]
    ELSE LET next == NHeap[status.NextMeeting]
             startsIn == StartsIn(next, t)
         IN IF startsIn <= 0 \/ startsIn > threshold \/ HasBeenNotified(st, next)
            THEN [ret |-> Nil, store |-> st, status |-> status, sent |-> 0]
            ELSE [ret |-> status.NextMeeting,
                  store |-> MarkNotified(st, next, t, "ok").store,
                  status |-> status, sent |-> 0]

\* calendar_test.go:965-984   the result, the store and the status as it leaves
\* them, and the number of notifications it sends
ShouldNotify(st, status, threshold, t) ==
    IF status.NextMeeting = Nil
    THEN [ret |-> Nil, store |-> st, status |-> status, sent |-> 0]
    ELSE LET next == NHeap[status.NextMeeting]
             startsIn == StartsIn(next, t)
         IN IF startsIn <= 0 \/ startsIn > threshold \/ HasBeenNotified(st, next)
            THEN [ret |-> Nil, store |-> st, status |-> status, sent |-> 0]
            ELSE [ret |-> status.NextMeeting, store |-> st, status |-> status, sent |-> 0]

\* calendar_test.go:986-988   os.RemoveAll(getNotifyDir())
NotifyClear(st, io) ==
    IF io = "ok" THEN [store |-> NoStore, err |-> FALSE]
    ELSE [store |-> st, err |-> TRUE]

\* calendar_test.go:1003 (mutant: a record of exactly the retention age goes too)
IsOldAtLimit(modTime, t) == modTime <= t - Retention

\* calendar_test.go:997-1003   info.ModTime().Before(time.Now().Add(-24 * time.Hour))
IsOld(modTime, t) == modTime < t - Retention

\* calendar_test.go:990-1007   failing: the files os.Remove cannot delete
CleanOldNotifications(st, t, failing) ==
    IF ~st.exists THEN st
    ELSE LET kept == {k \in DOMAIN st.recs : ~IsOld(st.recs[k], t) \/ k \in failing}
         IN [st EXCEPT !.recs = [k \in kept |-> st.recs[k]]]

\* the same event of the calendar: summary and the two instants
Occurrence(meeting) == <<meeting.Summary, Nanos(meeting.Start), Nanos(meeting.End)>>

InitNotify ==
    /\ nStore = NoStore
    /\ nClock = 0
    /\ nLast = [op |-> "none"]
    /\ nOcc = {}
    /\ nOccTwice = FALSE
    /\ StatusOff
    /\ FilterOff
    /\ CacheOff
    /\ MainOff
    /\ RaceOff
    /\ RunsOff
    /\ LoginOff

NotifyFrame ==
    UNCHANGED <<statusVars, filterVars, cacheVars, mainVars, raceVars, runsVars, loginVars>>

\* time passes
NotifyTick ==
    /\ nClock < MaxNClock
    /\ nClock' = nClock + 1
    /\ nLast' = [op |-> "tick"]
    /\ UNCHANGED <<nStore, nOcc, nOccTwice>>
    /\ NotifyFrame

\* a call ShouldNotify(&MeetingStatus{NextMeeting: p}, threshold)
CallShouldNotify(p, threshold) ==
    LET status == [CurrentMeeting |-> Nil, NextMeeting |-> p]
        r == ShouldNotify(nStore, status, threshold, nClock)
    IN /\ nStore' = r.store
       /\ nLast' = [op |-> "should", status |-> status, threshold |-> threshold,
                    ret |-> r.ret, after |-> r.status, sent |-> r.sent,
                    again |-> /\ nLast.op = "should"
                              /\ nLast.status = status
                              /\ nLast.threshold = threshold
                              /\ nLast.ret # Nil]
       /\ UNCHANGED nClock
       /\ NotifyFrame

\* a call HasBeenNotified(p)
CallHasBeenNotified(p) ==
    /\ nLast' = [op |-> "has", m |-> p, ret |-> HasBeenNotified(nStore, NHeap[p]), sent |-> 0]
    /\ UNCHANGED <<nStore, nClock>>
    /\ NotifyFrame

\* a call MarkNotified(p)
CallMarkNotified(p, io) ==
    /\ Stat(nStore, getNotifyFilePath(NHeap[p])) \/ Cardinality(DOMAIN nStore.recs) < MaxRecords
    /\ LET r == MarkNotified(nStore, NHeap[p], nClock, io)
       IN /\ nStore' = r.store
          /\ nLast' = [op |-> "mark", m |-> p, io |-> io, err |-> r.err,
                       had |-> getNotifyFilePath(NHeap[p]) \in DOMAIN nStore.recs]
    /\ UNCHANGED nClock
    /\ NotifyFrame

\* a call SendNotification(meeting, startsIn); beeep.Notify can fail
CallSendNotification(ok) ==
    /\ nLast' = [op |-> "send", err |-> ~ok]
    /\ UNCHANGED <<nStore, nClock>>
    /\ NotifyFrame

\* a call CleanOldNotifications()
CallCleanOldNotifications(failing) ==
    /\ nStore' = CleanOldNotifications(nStore, nClock, failing)
    /\ nLast' = [op |-> "clean", failing |-> failing,
                 removed |-> DOMAIN nStore.recs \ DOMAIN nStore'.recs]
    /\ UNCHANGED nClock
    /\ NotifyFrame

\* a call Clear()
CallNotifyClear(io) ==
    /\ LET r == NotifyClear(nStore, io)
       IN /\ nStore' = r.store
          /\ nLast' = [op |-> "clear", err |-> r.err]
    /\ UNCHANGED nClock
    /\ NotifyFrame

NotifyShould ==
    /\ \E p \in NPointers \cup {Nil}, threshold \in Thresholds : CallShouldNotify(p, threshold)
    /\ UNCHANGED <<nOcc, nOccTwice>>

NotifyHas ==
    /\ \E p \in NPointers : CallHasBeenNotified(p)
    /\ UNCHANGED <<nOcc, nOccTwice>>

NotifyMark ==
    /\ \E p \in NPointers : \E io \in MarkOutcomes(nStore) : CallMarkNotified(p, io)
    /\ UNCHANGED <<nOcc, nOccTwice>>

NotifySend ==
    /\ \E ok \in BOOLEAN : CallSendNotification(ok)
    /\ UNCHANGED <<nOcc, nOccTwice>>

NotifyClean ==
    /\ \E failing \in SUBSET {k \in DOMAIN nStore.recs : IsOld(nStore.recs[k], nClock)} :
          CallCleanOldNotifications(failing)
    /\ UNCHANGED <<nOcc, nOccTwice>>

NotifyClearAll ==
    /\ \E io \in {"ok", "fail"} : CallNotifyClear(io)
    /\ UNCHANGED <<nOcc, nOccTwice>>

NextNotify ==
    \/ NotifyTick
    \/ NotifyShould
    \/ NotifyHas
    \/ NotifyMark
    \/ NotifySend
    \/ NotifyClean
    \/ NotifyClearAll

SpecNotify == InitNotify /\ [][NextNotify]_vars

\* the store st holds a record under the fingerprint of the meeting
HasRecord(st, meeting) == st.exists /\ getNotificationID(meeting) \in DOMAIN st.recs

\* the NextMeeting of the last ShouldNotify call
LastNext == nLast.status.NextMeeting

\* now, as a count of half clock units
NowNanos == nClock * Resolution

\* C21: ShouldNotify returns status.NextMeeting iff it is present, starts
\* strictly after now, starts at most threshold from now (equality included)
\* and has not been notified; otherwise it returns nil, never another meeting.
C21_ShouldNotifyIff ==
    nLast.op = "should" =>
        LET due == /\ LastNext # Nil
                   /\ Nanos(NHeap[LastNext].Start) > NowNanos
                   /\ Nanos(NHeap[LastNext].Start) - NowNanos <= nLast.threshold
                   /\ ~HasBeenNotified(nStore, NHeap[LastNext])
        IN /\ due => nLast.ret = LastNext
           /\ ~due => nLast.ret = Nil

\* a meeting that starts exactly threshold from now is returned
C21_Witness ==
    /\ nLast.op = "should"
    /\ nLast.ret # Nil
    /\ nLast.ret = LastNext
    /\ Nanos(NHeap[LastNext].Start) - NowNanos = nLast.threshold

\* C22 (as claimed): a repeated ShouldNotify call with the same threshold for
\* the same next meeting does not return the meeting a second time, and once
\* the meeting has its record ShouldNotify returns nil for it.
C22_ReturnedExactlyOnce ==
    /\ (nLast.op = "should" /\ nLast.again) => nLast.ret = Nil
    /\ (nLast.op = "should" /\ LastNext # Nil /\ HasRecord(nStore, NHeap[LastNext]))
          => nLast.ret = Nil

\* C22 (amended): a repeated ShouldNotify call returns the meeting again as
\* long as MarkNotified has not been called; after a successful MarkNotified
\* the next ShouldNotify call for the meeting returns nil, and so does every
\* call made while the record is in the store.
C22_ReturnedUntilMarked ==
    /\ [](/\ (nLast.op = "should" /\ nLast.again) => nLast.ret = LastNext
          /\ (nLast.op = "should" /\ LastNext # Nil /\ HasRecord(nStore, NHeap[LastNext]))
                => nLast.ret = Nil)
    /\ [][(/\ nLast.op = "mark"
           /\ ~nLast.err
           /\ nLast'.op = "should"
           /\ nLast'.status.NextMeeting = nLast.m) => nLast'.ret = Nil]_vars

\* the second of two calls in a row returns the meeting again
C22_Witness ==
    /\ nLast.op = "should"
    /\ nLast.again
    /\ nLast.ret # Nil
    /\ nLast.ret = LastNext

\* C23: HasBeenNotified(m) is true iff the store holds a record under m's
\* fingerprint: false in a missing or empty store, true once MarkNotified(m)
\* has succeeded, and true until CleanOldNotifications or Clear removes the
\* record.
C23_HasBeenNotifiedIffRecord ==
    /\ [](/\ nLast.op = "has" => (nLast.ret <=> HasRecord(nStore, NHeap[nLast.m]))
          /\ (nLast.op = "has" /\ (~nStore.exists \/ DOMAIN nStore.recs = {})) => ~nLast.ret
          /\ (nLast.op = "mark" /\ ~nLast.err) => HasBeenNotified(nStore, NHeap[nLast.m]))
    /\ [][\A p \in NPointers :
             (HasBeenNotified(nStore, NHeap[p]) /\ ~HasBeenNotified(nStore', NHeap[p]))
                => nLast'.op \in {"clean", "clear"}]_vars

\* HasBeenNotified answers true for a marked meeting
C23_Witness ==
    /\ nLast.op = "has"
    /\ nLast.ret
    /\ HasRecord(nStore, NHeap[nLast.m])

\* C24: MarkNotified for a meeting that has its record already succeeds (when
\* the file system lets it) and leaves the set of records as it was.
C24_MarkNotifiedIdempotent ==
    [][(nLast'.op = "mark" /\ HasRecord(nStore, NHeap[nLast'.m])) =>
          /\ nStore'.exists
          /\ DOMAIN nStore'.recs = DOMAIN nStore.recs
          /\ \A p \in NPointers :
                HasBeenNotified(nStore', NHeap[p]) <=> HasBeenNotified(nStore, NHeap[p])
          /\ nLast'.io = "ok" => ~nLast'.err]_vars

\* a second MarkNotified has succeeded
C24_Witness ==
    /\ nLast.op = "mark"
    /\ nLast.had
    /\ ~nLast.err
    /\ HasRecord(nStore, NHeap[nLast.m])

\* two meetings with identical summary, start and end (as instants)
SameSummaryStartEnd(a, b) ==
    /\ a.Summary = b.Summary
    /\ Nanos(a.Start) = Nanos(b.Start)
    /\ Nanos(a.End) = Nanos(b.End)

\* C25: a successful MarkNotified(m) makes HasBeenNotified true for every
\* meeting with m's summary, start and end, whatever its other fields, and
\* leaves HasBeenNotified as it was for every meeting that differs from m in
\* summary, start or end.
C25_FingerprintOfSummaryStartEnd ==
    [][(nLast'.op = "mark" /\ ~nLast'.err) =>
          \A q \in NPointers :
             IF SameSummaryStartEnd(NHeap[nLast'.m], NHeap[q])
             THEN HasBeenNotified(nStore', NHeap[q])
             ELSE HasBeenNotified(nStore', NHeap[q]) <=> HasBeenNotified(nStore, NHeap[q])]_vars

\* C26: CleanOldNotifications removes the records written more than the
\* retention before now, except those whose deletion fails, keeps every other
\* record with its write time, creates none, and has no failure to report.
C26_CleanRemovesOldOnly ==
    [][nLast'.op = "clean" =>
          LET old == {k \in DOMAIN nStore.recs : nClock - nStore.recs[k] > Retention}
          IN /\ DOMAIN nStore.recs \ DOMAIN nStore'.recs = old \ nLast'.failing
             /\ DOMAIN nStore'.recs \subseteq DOMAIN nStore.recs
             /\ \A k \in DOMAIN nStore'.recs : nStore'.recs[k] = nStore.recs[k]
             /\ nStore'.exists = nStore.exists
             /\ nLast'.removed = old \ nLast'.failing]_vars

\* one record was removed and a younger one kept
C26_Witness ==
    /\ nLast.op = "clean"
    /\ nLast.removed # {}
    /\ DOMAIN nStore.recs # {}
    /\ \A k \in DOMAIN nStore.recs : nClock - nStore.recs[k] <= Retention

\* C27: ShouldNotify and HasBeenNotified leave the store and the status as
\* they are and send nothing; a record is added by MarkNotified only.
C27_DecisionsReadOnly ==
    [][/\ nLast'.op \in {"should", "has"} => (nStore' = nStore /\ nLast'.sent = 0)
       /\ nLast'.op = "should" => nLast'.after = nLast'.status
       /\ ~(DOMAIN nStore'.recs \subseteq DOMAIN nStore.recs) => nLast'.op = "mark"]_vars

\* ShouldNotify has returned a meeting and the store is still missing
C27_Witness ==
    /\ nLast.op = "should"
    /\ nLast.ret # Nil
    /\ nStore = NoStore

-----------------------------------------------------------------------------
(* The store under a poller: it asks ShouldNotify with a threshold of at    *)
(* most the retention, calls MarkNotified for a meeting only directly after *)
(* ShouldNotify returned it, never calls Clear, and CleanOldNotifications   *)
(* runs at any point.  What the next meeting is at a poll, and how its      *)
(* times are written, is decided by the calendar.                           *)

PollShould ==
    /\ \E p \in NPointers \cup {Nil} :
          \E threshold \in {d \in Thresholds : d <= Retention * Resolution} :
             CallShouldNotify(p, threshold)
    /\ UNCHANGED <<nOcc, nOccTwice>>

PollMark ==
    /\ nLast.op = "should"
    /\ nLast.ret # Nil
    /\ \E io \in MarkOutcomes(nStore) : CallMarkNotified(nLast.ret, io)
    /\ nOcc' = IF nLast'.err THEN nOcc ELSE nOcc \cup {Occurrence(NHeap[nLast.ret])}
    /\ nOccTwice' = (nOccTwice \/ (~nLast'.err /\ Occurrence(NHeap[nLast.ret]) \in nOcc))

PollClean ==
    /\ \E failing \in SUBSET {k \in DOMAIN nStore.recs : IsOld(nStore.recs[k], nClock)} :
          CallCleanOldNotifications(failing)
    /\ UNCHANGED <<nOcc, nOccTwice>>

NextPoller ==
    \/ NotifyTick
    \/ PollShould
    \/ PollMark
    \/ PollClean

SpecPoller == InitNotify /\ [][NextPoller]_vars

\* C29: under the poller no meeting occurrence is returned by ShouldNotify and
\* then marked more than once, whenever CleanOldNotifications runs.
C29_MarkedAtMostOnce == ~nOccTwice

-----------------------------------------------------------------------------
(* Part 7: successive invocations of the program on one cache file: each   *)
(* is an invocation of part 4 (main.go:185-310); between two of them time  *)
(* may pass.                                                               *)

InitRuns ==
    /\ file = Missing
    /\ clock = 0
    /\ CacheLogOff
    /\ mpc = "start"
    /\ mEvents = NilSlice
    /\ trace = <<>>
    /\ mOut = Running
    /\ mLog = StartLog(file)
    /\ prevWrite = [valid |-> FALSE]
    /\ StatusOff
    /\ FilterOff
    /\ RaceOff
    /\ NotifyOff
    /\ LoginOff

\* the invocation has exited; the program is started again, now or later
RunsNext ==
    /\ mpc = "exited"
    /\ \E later \in clock..MaxClock : clock' = later
    /\ prevWrite' = IF mLog.write = "ok"
                    THEN [valid |-> TRUE, at |-> clock, events |-> mLog.fetch.events]
                    ELSE IF mLog.write = "fail" \/ (\E i \in 1..Len(trace) : trace[i] = "cache.Clear")
                         THEN [valid |-> FALSE]
                         ELSE prevWrite
    /\ mpc' = "start"
    /\ mEvents' = NilSlice
    /\ trace' = <<>>
    /\ mOut' = Running
    /\ mLog' = StartLog(file)
    /\ UNCHANGED <<file, lastOp, lastWrite, clearsInRow>>
    /\ UNCHANGED <<statusVars, filterVars, raceVars, notifyVars, loginVars>>

NextRuns ==
    \/ MainClearCache
    \/ MainCredentials
    \/ MainNotLoggedIn
    \/ MainRead
    \/ MainNoClient
    \/ MainFetchFails
    \/ MainFetchAndCache
    \/ MainStatus
    \/ RunsNext

SpecRuns == InitRuns /\ [][NextRuns]_vars

\* C28: after an invocation that fetched and cached, an invocation that
\* starts within the cache duration (no clear and no write in between) reads
\* the events from the cache and does not fetch, whatever list was fetched.
C28_HitAfterFetchAndWrite ==
    (/\ mLog.read.done
     /\ prevWrite.valid
     /\ clock - prevWrite.at <= CacheDuration)
        => /\ ~mLog.read.events.isNil
           /\ mpc # "fetch"
           /\ \A i \in 1..Len(trace) : trace[i] # "GetTodayEvents"

-----------------------------------------------------------------------------
(* Part 8: the OAuth login wait, calendar.getTokenFromWeb                  *)
(* (src/calendar/calendar.go:236-304): the main goroutine, the goroutine   *)
(* running server.ListenAndServe, and one goroutine per request to         *)
(* /callback.  codeChan and errChan are buffered channels of capacity 1:   *)
(* a send blocks while the buffer is full.                                 *)

NCallbacks == 3     \* requests to /callback

ChanCap == 1        \* make(chan string, 1), make(chan error, 1), calendar.go:238-239

Callbacks == 1..NCallbacks

InitLogin ==
    /\ lpc = "wait"
    /\ lOut = [case |-> "none"]
    /\ codeChan = <<>>
    /\ errChan = <<>>
    /\ hpc = [h \in Callbacks |-> "none"]
    /\ hCode \in [Callbacks -> BOOLEAN]
    /\ srv = "starting"
    /\ ctxDone = FALSE
    /\ StatusOff
    /\ FilterOff
    /\ CacheOff
    /\ MainOff
    /\ RaceOff
    /\ NotifyOff
    /\ RunsOff

LoginFrame ==
    UNCHANGED <<statusVars, filterVars, cacheVars, mainVars, raceVars, notifyVars, runsVars>>

\* calendar.go:259   ListenAndServe has bound the port and accepts connections
ServerListens ==
    /\ srv = "starting"
    /\ srv' = "listening"
    /\ UNCHANGED <<lpc, lOut, codeChan, errChan, hpc, hCode, ctxDone>>
    /\ LoginFrame

\* calendar.go:259   ListenAndServe returns an error other than ErrServerClosed
ServerFails ==
    /\ srv \in {"starting", "listening"}
    /\ srv' = "failed"
    /\ UNCHANGED <<lpc, lOut, codeChan, errChan, hpc, hCode, ctxDone>>
    /\ LoginFrame

\* calendar.go:260   errChan <- err
ServerSendsErr ==
    /\ srv = "failed"
    /\ Len(errChan) < ChanCap
    /\ errChan' = Append(errChan, "serve")
    /\ srv' = "sent"
    /\ UNCHANGED <<lpc, lOut, codeChan, hpc, hCode, ctxDone>>
    /\ LoginFrame

\* calendar.go:244-246   a request to /callback is accepted and its handler starts
CallbackArrives(h) ==
    /\ srv = "listening"
    /\ hpc[h] = "none"
    /\ hpc' = [hpc EXCEPT ![h] = "send"]
    /\ UNCHANGED <<lpc, lOut, codeChan, errChan, hCode, srv, ctxDone>>
    /\ LoginFrame

\* calendar.go:246-250   no code: errChan <- ..., then the handler returns
HandlerSendsErr(h) ==
    /\ hpc[h] = "send"
    /\ ~hCode[h]
    /\ Len(errChan) < ChanCap
    /\ errChan' = Append(errChan, "no code")
    /\ hpc' = [hpc EXCEPT ![h] = "done"]
    /\ UNCHANGED <<lpc, lOut, codeChan, hCode, srv, ctxDone>>
    /\ LoginFrame

\* calendar.go:252-254   a code: the page is written, codeChan <- code, the handler returns
HandlerSendsCode(h) ==
    /\ hpc[h] = "send"
    /\ hCode[h]
    /\ Len(codeChan) < ChanCap
    /\ codeChan' = Append(codeChan, h)
    /\ hpc' = [hpc EXCEPT ![h] = "done"]
    /\ UNCHANGED <<lpc, lOut, errChan, hCode, srv, ctxDone>>
    /\ LoginFrame

\* the caller's context is cancelled
ContextCancelled ==
    /\ ~ctxDone
    /\ ctxDone' = TRUE
    /\ UNCHANGED <<lpc, lOut, codeChan, errChan, hpc, hCode, srv>>
    /\ LoginFrame

\* calendar.go:283-285   case code = <-codeChan
SelectCode ==
    /\ lpc = "wait"
    /\ codeChan # <<>>
    /\ codeChan' = Tail(codeChan)
    /\ lOut' = [case |-> "code"]
    /\ lpc' = "shutdown"
    /\ UNCHANGED <<errChan, hpc, hCode, srv, ctxDone>>
    /\ LoginFrame

\* calendar.go:286   case err := <-errChan
SelectErr ==
    /\ lpc = "wait"
    /\ errChan # <<>>
    /\ errChan' = Tail(errChan)
    /\ lOut' = [case |-> "err"]
    /\ lpc' = "shutdown"
    /\ UNCHANGED <<codeChan, hpc, hCode, srv, ctxDone>>
    /\ LoginFrame

\* calendar.go:289   case <-ctx.Done()
SelectDone ==
    /\ lpc = "wait"
    /\ ctxDone
    /\ lOut' = [case |-> "ctx"]
    /\ lpc' = "shutdown"
    /\ UNCHANGED <<codeChan, errChan, hpc, hCode, srv, ctxDone>>
    /\ LoginFrame

\* calendar.go:287, 290, 295   server.Shutdown(ctx) closes the listener:
\* ListenAndServe returns ErrServerClosed and no request is accepted any more
ShutdownCloses ==
    /\ lpc = "shutdown"
    /\ lpc' = "draining"
    /\ srv' = IF srv \in {"starting", "listening"} THEN "closed" ELSE srv
    /\ UNCHANGED <<lOut, codeChan, errChan, hpc, hCode, ctxDone>>
    /\ LoginFrame

\* calendar.go:287, 290, 295   server.Shutdown(ctx) returns when no handler is
\* running any more, or when ctx is done
ShutdownReturns ==
    /\ lpc = "draining"
    /\ ctxDone \/ \A h \in Callbacks : hpc[h] # "send"
    /\ lpc' = IF lOut.case = "code" THEN "exchange" ELSE "returned"
    /\ UNCHANGED <<lOut, codeChan, errChan, hpc, hCode, srv, ctxDone>>
    /\ LoginFrame

\* calendar.go:298-303   config.Exchange answers with a token or an error
ExchangeReturns ==
    /\ lpc = "exchange"
    /\ \E ok \in BOOLEAN : lOut' = [case |-> "code", token |-> ok]
    /\ lpc' = "returned"
    /\ UNCHANGED <<codeChan, errChan, hpc, hCode, srv, ctxDone>>
    /\ LoginFrame

NextLogin ==
    \/ ServerListens
    \/ ServerFails
    \/ ServerSendsErr
    \/ \E h \in Callbacks : CallbackArrives(h)
    \/ \E h \in Callbacks : HandlerSendsErr(h)
    \/ \E h \in Callbacks : HandlerSendsCode(h)
    \/ ContextCancelled
    \/ SelectCode
    \/ SelectErr
    \/ SelectDone
    \/ ShutdownCloses
    \/ ShutdownReturns
    \/ ExchangeReturns

SpecLogin == InitLogin /\ [][NextLogin]_vars

\* the handler of request h is at its channel send, the buffer is full, and
\* the select that alone receives from the channels is over
BlockedForever(h) ==
    /\ hpc[h] = "send"
    /\ lpc # "wait"
    /\ IF hCode[h] THEN Len(codeChan) = ChanCap ELSE Len(errChan) = ChanCap

\* C30: once the wait is over (a code was received, an error, or the context
\* was cancelled) no callback handler is left blocked for ever on codeChan or
\* errChan, so that the shutdown after the wait is not left waiting for one.
C30_NoHandlerBlockedForever ==
    /\ \A h \in Callbacks : ~BlockedForever(h)
    /\ ~(lpc = "draining" /\ ~ctxDone /\ \E h \in Callbacks : BlockedForever(h))

====
